---- MODULE Spec2Model ----
(***************************************************************************)
(* The reactive core of src/response.js: Observer (observe /               *)
(* defineReactive), Dep (subs, addSub, notify), Watcher (constructor,      *)
(* update) and the static slot Dep.target.                                 *)
(*                                                                         *)
(* JavaScript is single-threaded and every call here is synchronous, so a  *)
(* behaviour of the program is a sequence of top-level operations (a       *)
(* property write, a property read, `new Watcher`, an external update()),  *)
(* each of which runs to completion, normally or by an uncaught exception.  *)
(* One action models one top-level operation with everything it calls; the *)
(* calls are the operators below, which pass the program state along as a  *)
(* record `s` (an exception is the flag s.thrown: the code has no          *)
(* try/catch, so once it is set every caller returns at once).             *)
(* What happens inside an operation is kept in the history variable        *)
(* `trace`, one event per assignment, notify(), update() and callback.     *)
(*                                                                         *)
(* Three specifications share the operators:                               *)
(*   Spec         watchers, reads, writes and update() calls on converted  *)
(*                data, the data object being the root of the key paths;   *)
(*   SpecConvert  `new Observer` on plain object graphs, with sharing and  *)
(*                cycles;                                                  *)
(*   SpecVue      a Vue instance: the proxied keys, Compile on a template  *)
(*                of text nodes and inputs, input events.                  *)
(***************************************************************************)
EXTENDS Integers, Sequences, FiniteSets, TLC

\* Number of top-level operations of a behaviour.
MaxOps == 3

\* Call depth at which the engine gives up with a RangeError ("Maximum call
\* stack size exceeded"); the nested update() calls are counted, and the nested
\* observe() calls.
MaxDepth == 4

\* Dep.target = null (src/response.js:103); watchers are numbered from 1.
Null == 0

\* ------------------------------------------------------------ values ----
Undefined == "undefined"
Scalars == {"v1", "v2"}
\* D is options.data; A is the object D.a holds at conversion time; N is a
\* plain object created after conversion, which nothing has observed.
Objects == {"D", "A", "N"}

\* Object.keys(o), in insertion order.
KeysOf(o) ==
  CASE o = "D" -> <<"count", "a">>
    [] o = "A" -> <<"b">>
    [] o = "N" -> <<"b">>
    [] OTHER -> <<>>

Fields == {<<"D", "count">>, <<"D", "a">>, <<"A", "b">>, <<"N", "b">>}

\* The data before `new Observer(data)`: D = {count: v1, a: A}, A = {b: v1},
\* and N = {b: v1}.
PlainVal ==
  [f \in Fields |-> IF f = <<"D", "a">> THEN "A" ELSE "v1"]

\* The values the environment assigns to each field.
Domain(f) ==
  IF f = <<"D", "a">> THEN {"A", "N", Undefined} ELSE Scalars

\* Key paths given to `new Watcher` (key.split('.') of "count" and "a.b").
KeyPaths == {<<"count">>, <<"a", "b">>}

\* What a callback does with the value it receives:
\*   log    pushes it on the watcher's own array
\*   throw  raises
\*   read   reads D.count
\*   write  assigns D.count = v2
\*   toggle assigns D.count the scalar other than the one it received
\*   upd    calls update() of the first watcher, once `new` has returned it
Callbacks == {"log", "throw", "read", "write", "toggle", "upd"}

\* The callbacks Compile gives its watchers, each closing over a DOM node:
\*   text   node.textContent = text.replace(reg, newVal)   (line 156)
\*   model  node.value = newVal                            (line 176)
CompileCallbacks == {"text", "model"}

\* The Vue instance, as the root of a key path.
VM == "VM"

VARIABLES
  val,       \* [Fields -> value]: the closure variable `val` of an intercepted
             \* field, the stored value of a plain one
  reactive,  \* the fields defineReactive has given a getter/setter
  subs,      \* [Fields -> Seq(watcher)]: dep.subs of each field's Dep
  target,    \* Dep.target
  watchers,  \* every Watcher object created so far, by number
  log,       \* log[w]: the array a "log" callback of watcher w pushes on
  nodes,     \* the DOM nodes of vm.$el, in document order
  trace,     \* history: the events of all operations so far
  last,      \* history: the last top-level operation and the state before it
  nops       \* number of top-level operations so far

vars ==
  <<val, reactive, subs, target, watchers, log, nodes, trace, last, nops>>

\* ------------------------------------------------------------ history ---
\* An event: e its kind, w the watcher, v a value, old the value before, f a
\* field, l a subscriber list, d the call depth, src the caller of update()
\* ("ctor", "notify", "ext", "cb"), by = <<i, j>> when the update() is the j-th call
\* of the notify() whose event is trace[i], tgt Dep.target at that moment.
\*   assign  the assignment f = v, f holding old
\*   notify  dep.notify() of f; l is dep.subs when forEach starts
\*   upd     w.update() is entered
\*   cb      w.cb(v) is entered
\*   raise   w.update() raises: v is "path" (the reduce), "cb" (the callback)
\*           or "stack" (call depth); observe() raises (w = 0, v = "stack")
Ev(e, w, v, old, f, l, d, src, by, tgt) ==
  [e |-> e, w |-> w, v |-> v, old |-> old, f |-> f, l |-> l, d |-> d,
   src |-> src, by |-> by, tgt |-> tgt]

Record(s, ev) == [s EXCEPT !.trace = Append(@, ev)]

IsObject(v) == v \in Objects

RECURSIVE observe(_, _, _)
RECURSIVE observeKeys(_, _, _, _)
RECURSIVE Reduce(_, _, _, _, _)
RECURSIVE set(_, _, _, _)
RECURSIVE notify(_, _, _)
RECURSIVE notifyEach(_, _, _, _, _, _)
RECURSIVE update(_, _, _, _, _)
RECURSIVE cb(_, _, _, _, _)
RECURSIVE Assign(_, _, _, _, _)

\* ------------------------------------------------------------ Dep -------
\* Dep.addSub: this.subs.push(watcher)
addSub(s, f, w) == [s EXCEPT !.subs[f] = Append(@, w)]

\* ------------------------------------------------------------ getter ----
\* Mutant of get: the getter records Dep.target twice.
getTwice(s, f) ==
  [s |-> IF s.target # Null THEN addSub(addSub(s, f, s.target), f, s.target)
                            ELSE s,
   v |-> s.val[f]]

\* The getter of an intercepted field: records Dep.target when there is
\* one, returns val.
get(s, f) ==
  [s |-> IF s.target # Null THEN addSub(s, f, s.target) ELSE s,
   v |-> s.val[f]]

\* The property read o[k]: through the getter when the field is intercepted,
\* the stored value when it is plain, undefined when o has no such property
\* (o a scalar, or an object without k).
GetProp(s, o, k) ==
  IF <<o, k>> \in s.reactive THEN get(s, <<o, k>>)
  ELSE IF <<o, k>> \in Fields THEN [s |-> s, v |-> s.val[<<o, k>>]]
  ELSE [s |-> s, v |-> Undefined]

\* ------------------------------------------------------------ Vue -------
\* The keys _proxy was called for: Object.keys(this.$data) (line 11).
Proxied == {KeysOf("D")[i] : i \in 1..Len(KeysOf("D"))}

\* The getter _proxy defines on the instance: return this.$data[key]
proxyGet(s, key) == GetProp(s, "D", key)

\* The property read o[k], o the Vue instance or a value of the data.
Prop(s, o, k) ==
  IF o = VM
    THEN IF k \in Proxied THEN proxyGet(s, k) ELSE [s |-> s, v |-> Undefined]
    ELSE GetProp(s, o, k)

\* ------------------------------------------------------------ Observer --
\* defineReactive(data, key, val): observe(val), a new Dep, the accessor pair
\* closing over val. d is the nesting depth of observe().
defineReactive(s, data, key, v, d) ==
  LET s1 == observe(s, v, d + 1)
  IN  IF s1.thrown THEN s1
      ELSE [s1 EXCEPT !.reactive = @ \cup {<<data, key>>},
                      !.subs[<<data, key>>] = <<>>,
                      !.val[<<data, key>>] = v]

\* Object.keys(data).forEach(key => this.defineReactive(data, key, data[key]))
observeKeys(s, data, i, d) ==
  IF s.thrown \/ i > Len(KeysOf(data)) THEN s
  ELSE LET r == GetProp(s, data, KeysOf(data)[i])
       IN  observeKeys(defineReactive(r.s, data, KeysOf(data)[i], r.v, d),
                       data, i + 1, d)

\* observe(data): nothing for a value that is not an object; the engine raises
\* a RangeError when the calls nest deeper than the stack allows.
observe(s, data, d) ==
  IF ~IsObject(data) THEN s
  ELSE IF d > MaxDepth
    THEN [Record(s, Ev("raise", 0, "stack", "", <<>>, <<>>, d, "observe",
                        <<>>, s.target))
            EXCEPT !.thrown = TRUE]
  ELSE observeKeys(s, data, 1, d)

\* ------------------------------------------------------------ setter ----
\* Mutant of set: line 68 (val = newVal) left out.
setNoStore(s, f, newVal, d) ==
  IF s.val[f] = newVal THEN s
  ELSE notify(s, f, d)

\* Mutant of set: the comparison of line 65 inverted.
setInverted(s, f, newVal, d) ==
  IF s.val[f] # newVal THEN s
  ELSE notify([s EXCEPT !.val[f] = newVal], f, d)

\* The setter of an intercepted field.
set(s, f, newVal, d) ==
  IF s.val[f] = newVal THEN s
  ELSE notify([s EXCEPT !.val[f] = newVal], f, d)

\* The assignment statement o[k] = v, at call depth d: the setter of an
\* intercepted field, a plain store otherwise.
Assign(s, o, k, v, d) ==
  LET f  == <<o, k>>
      s1 == Record(s, Ev("assign", 0, v, s.val[f], f, <<>>, d, "", <<>>,
                            s.target))
  IN  IF f \in s.reactive THEN set(s1, f, v, d)
      ELSE [s1 EXCEPT !.val[f] = v]

\* Mutant of proxySet: the setter stores on the instance, not on $data.
proxySetLocal(s, key, newVal, d) == s

\* The setter _proxy defines on the instance: this.$data[key] = newVal
proxySet(s, key, newVal, d) == Assign(s, "D", key, newVal, d)

\* The assignment o[k] = v for any o: through the proxy on the Vue instance, a
\* field of a data object, a TypeError when o is undefined or a primitive
\* (class bodies are strict code).
PropAssign(s, o, k, v, d) ==
  IF o = VM
    THEN IF k \in Proxied THEN proxySet(s, k, v, d) ELSE s
  ELSE IF <<o, k>> \in Fields THEN Assign(s, o, k, v, d)
  ELSE [Record(s, Ev("raise", 0, "type", "", <<>>, <<>>, d, "assign", <<>>,
                     s.target))
          EXCEPT !.thrown = TRUE]

\* ------------------------------------------------------------ DOM -------
\* A text is the sequence of its interpolations, separated by other text: a
\* token is raw ({{ p }} as written) or replaced by a value.
Token(p) == [raw |-> TRUE, p |-> p, v |-> ""]

\* The string a value is stored as by textContent and value.
toString(v) == IF v \in Objects THEN "[object Object]" ELSE v

\* reg.exec(text): reg has no g flag, so the match is the first {{ p }} of the
\* text; 0 stands for null.
exec(text) ==
  IF \E i \in 1..Len(text) : text[i].raw
    THEN CHOOSE i \in 1..Len(text) :
           text[i].raw /\ \A j \in 1..(i - 1) : ~text[j].raw
    ELSE 0

\* text.replace(reg, value): the first match is replaced.
replace(text, value) ==
  IF exec(text) = 0 THEN text
  ELSE [text EXCEPT ![exec(text)] =
                      [@ EXCEPT !.raw = FALSE, !.v = toString(value)]]

\* ------------------------------------------------------------ notify ----
\* Array.prototype.forEach visits the indices below the length the array had
\* when forEach was called; an exception ends the loop.
notifyEach(s, f, i, n, d, at) ==
  IF s.thrown \/ i > n THEN s
  ELSE notifyEach(update(s, s.subs[f][i], "notify", <<at, i>>, d + 1),
                  f, i + 1, n, d, at)

\* Dep.notify
notify(s, f, d) ==
  notifyEach(Record(s, Ev("notify", 0, "", "", f, s.subs[f], d, "", <<>>,
                          s.target)),
             f, 1, Len(s.subs[f]), d, Len(s.trace) + 1)

\* ------------------------------------------------------------ Watcher ---
\* key.split('.').reduce((v, k) => v[k], vm), from segment i on, v the
\* accumulator; v[k] of undefined raises a TypeError. flds collects the
\* intercepted fields read on the way.
Reduce(s, v, key, i, flds) ==
  IF i > Len(key) THEN [s |-> s, v |-> v, thrown |-> FALSE, flds |-> flds]
  ELSE IF v = Undefined
    THEN [s |-> s, v |-> Undefined, thrown |-> TRUE, flds |-> flds]
  ELSE LET r == Prop(s, v, key[i])
           \* the object whose field the read ends in
           o == IF v = VM THEN "D" ELSE v
       IN  Reduce(r.s, r.v, key, i + 1,
                  IF <<o, key[i]>> \in s.reactive
                    THEN Append(flds, <<o, key[i]>>) ELSE flds)

\* this.cb(value) of watcher w.
cb(s, w, v, src, d) ==
  LET k  == s.watchers[w].cb
      s1 == Record(s, Ev("cb", w, v, "", <<>>, <<>>, d, src, <<>>, s.target))
  IN  CASE k = "log" -> [s1 EXCEPT !.log[w] = Append(@, v)]
        [] k = "throw" ->
             [Record(s1, Ev("raise", w, "cb", "", <<>>, <<>>, d, src, <<>>,
                            s.target))
                EXCEPT !.thrown = TRUE]
        [] k = "read" -> GetProp(s1, "D", "count").s
        [] k = "write" -> Assign(s1, "D", "count", "v2", d)
        [] k = "toggle" ->
             Assign(s1, "D", "count", IF v = "v1" THEN "v2" ELSE "v1", d)
        [] k = "upd" ->
             IF w # 1 /\ s1.watchers[1].st = "done"
               THEN update(s1, 1, "cb", <<>>, d + 1)
               ELSE s1
        [] k = "text" ->
             [s1 EXCEPT !.nodes[s.watchers[w].node].text =
                          replace(s.nodes[s.watchers[w].node].orig, v)]
        [] k = "model" ->
             [s1 EXCEPT !.nodes[s.watchers[w].node].value = toString(v)]

\* Watcher.update; src says who called it ("ctor", "notify", "ext", "cb").
update(s, w, src, by, d) ==
  LET s1 == Record(s, Ev("upd", w, "", "", <<>>, <<>>, d, src, by, s.target))
      r  == Reduce(s1, s1.watchers[w].vm, s1.watchers[w].key, 1, <<>>)
      \* history: the fields the constructor's resolution went through
      s2 == IF src = "ctor" THEN [r.s EXCEPT !.watchers[w].deps = r.flds]
            ELSE r.s
  IN  IF d > MaxDepth
        THEN [Record(s1, Ev("raise", w, "stack", "", <<>>, <<>>, d, src, <<>>,
                            s.target))
                EXCEPT !.thrown = TRUE]
      ELSE IF r.thrown
        THEN [Record(s2, Ev("raise", w, "path", "", <<>>, <<>>, d, src, <<>>,
                            s.target))
                EXCEPT !.thrown = TRUE]
      ELSE cb(s2, w, r.v, src, d)

\* new Watcher(vm, key, cb): an exception of update() leaves the constructor
\* before line 103. n is the DOM node a callback of Compile closes over (0 for
\* any other callback).
Watcher(s, vm, key, k, n) ==
  LET w  == Len(s.watchers) + 1
      s1 == [s EXCEPT !.watchers =
                        Append(@, [vm |-> vm, key |-> key, cb |-> k, node |-> n,
                                   st |-> "constructing", deps |-> <<>>]),
                      !.log = Append(@, <<>>),
                      !.target = w]
      s2 == update(s1, w, "ctor", <<>>, 1)
  IN  IF s2.thrown THEN [s2 EXCEPT !.watchers[w].st = "failed"]
      ELSE [s2 EXCEPT !.target = Null, !.watchers[w].st = "done"]

\* ------------------------------------------------------------ Compile ---
\* Compile.replace(node) of node n: a text node with an interpolation gets its
\* first match replaced by the value of the path and one Watcher; an input
\* with v-model gets the value, a Watcher and the input listener.
replaceNode(s, n) ==
  LET nd   == s.nodes[n]
      key  == IF nd.kind = "text" THEN nd.text[exec(nd.text)].p ELSE nd.key
      r    == Reduce(s, VM, key, 1, <<>>)
      fail == [Record(r.s, Ev("raise", 0, "path", "", <<>>, <<>>, 0, "compile",
                              <<>>, s.target))
                 EXCEPT !.thrown = TRUE]
  IN  IF nd.kind = "text"
        THEN IF exec(nd.text) = 0 THEN s
             ELSE IF r.thrown THEN fail
             ELSE Watcher([r.s EXCEPT !.nodes[n].orig = nd.text,
                                      !.nodes[n].text = replace(nd.text, r.v)],
                          VM, key, "text", n)
      ELSE IF nd.key = <<>> THEN s
      ELSE IF r.thrown THEN fail
      ELSE LET s1 == Watcher([r.s EXCEPT !.nodes[n].value = toString(r.v)],
                             VM, key, "model", n)
           IN  IF s1.thrown THEN s1 ELSE [s1 EXCEPT !.nodes[n].bound = TRUE]

\* The nodes of the fragment from n on, in document order (the recursion of
\* line 192 visits them depth first).
RECURSIVE replaceChildren(_, _)
replaceChildren(s, n) ==
  IF s.thrown \/ n > Len(s.nodes) THEN s
  ELSE replaceChildren(replaceNode(s, n), n + 1)

\* new Compile(el, vm)
Compile(s) == replaceChildren(s, 1)

\* The input listener of node n (lines 180-186), value the content of the
\* input.
onInput(s, n, value) ==
  LET keyArr == s.nodes[n].key
      len    == Len(keyArr)
      r      == Reduce(s, VM, SubSeq(keyArr, 1, len - 1), 1, <<>>)
  IN  IF r.thrown
        THEN [Record(r.s, Ev("raise", 0, "path", "", <<>>, <<>>, 0, "input",
                             <<>>, s.target))
                EXCEPT !.thrown = TRUE]
      ELSE PropAssign(r.s, r.v, keyArr[len], value, 0)

\* ------------------------------------------------------------ actions ---
Cur ==
  [val |-> val, reactive |-> reactive, subs |-> subs, target |-> target,
   watchers |-> watchers, log |-> log, nodes |-> nodes, trace |-> trace,
   thrown |-> FALSE]

Pre ==
  [val |-> val, reactive |-> reactive, subs |-> subs, target |-> target,
   watchers |-> watchers, log |-> log, nodes |-> nodes]

Commit(s, op, f, v, w) ==
  /\ val' = s.val
  /\ reactive' = s.reactive
  /\ subs' = s.subs
  /\ target' = s.target
  /\ watchers' = s.watchers
  /\ log' = s.log
  /\ nodes' = s.nodes
  /\ trace' = s.trace
  /\ last' = [op |-> op, f |-> f, v |-> v, w |-> w, thrown |-> s.thrown,
              from |-> Len(trace), pre |-> Pre]
  /\ nops' = nops + 1

\* The state after `new Observer(data)` (Vue's constructor, line 8).
Converted ==
  observe([val |-> PlainVal, reactive |-> {},
           subs |-> [f \in Fields |-> <<>>], target |-> Null,
           watchers |-> <<>>, log |-> <<>>, nodes |-> <<>>, trace |-> <<>>,
           thrown |-> FALSE], "D", 1)

Init ==
  /\ val = Converted.val
  /\ reactive = Converted.reactive
  /\ subs = Converted.subs
  /\ target = Converted.target
  /\ watchers = <<>>
  /\ log = <<>>
  /\ nodes = <<>>
  /\ trace = <<>>
  /\ last = [op |-> "init", f |-> <<>>, v |-> "", w |-> 0, thrown |-> FALSE,
             from |-> 0,
             pre |-> [val |-> Converted.val, reactive |-> Converted.reactive,
                      subs |-> Converted.subs, target |-> Null,
                      watchers |-> <<>>, log |-> <<>>, nodes |-> <<>>]]
  /\ nops = 0

\* A top-level `new Watcher(data, key, cb)`, the data object itself being the
\* root the key path starts from.
NewWatcher(key, k) ==
  /\ nops < MaxOps
  /\ Commit(Watcher(Cur, "D", key, k, 0), "new", <<>>, "", Len(watchers) + 1)

\* A top-level assignment o[k] = v.
Write(f, v) ==
  /\ nops < MaxOps
  /\ Commit(Assign(Cur, f[1], f[2], v, 0), "write", f, v, 0)

\* A top-level read of o[k].
Read(f) ==
  /\ nops < MaxOps
  /\ LET r == GetProp(Cur, f[1], f[2])
     IN  Commit(r.s, "read", f, r.v, 0)

\* update() called from outside on a Watcher that `new` returned.
CallUpdate(w) ==
  /\ nops < MaxOps
  /\ watchers[w].st = "done"
  /\ Commit(update(Cur, w, "ext", <<>>, 1), "update", <<>>, "", w)

Next ==
  \/ \E key \in KeyPaths, k \in Callbacks : NewWatcher(key, k)
  \/ \E f \in Fields : \E v \in Domain(f) : Write(f, v)
  \/ \E f \in Fields : Read(f)
  \/ \E w \in 1..Len(watchers) : CallUpdate(w)

Spec == Init /\ [][Next]_vars

\* ------------------------------------------------------------ Vue app ----
\* options.data of the application: {count: v1, a: {b: {b: v1}}}, the objects
\* being D, A and N.
VueData ==
  [f \in Fields |-> CASE f = <<"D", "a">> -> "A"
                      [] f = <<"A", "b">> -> "N"
                      [] OTHER -> "v1"]

\* The key paths the template uses.
TplPaths == {<<"count">>, <<"a">>, <<"a", "b", "b">>}

TextNode(ps) ==
  [kind |-> "text", text |-> [i \in 1..Len(ps) |-> Token(ps[i])],
   orig |-> <<>>, key |-> <<>>, value |-> "", bound |-> FALSE]

InputNode(key) ==
  [kind |-> "input", text |-> <<>>, orig |-> <<>>, key |-> key, value |-> "",
   bound |-> FALSE]

\* The templates: two nodes, each a text with no, one or two interpolations
\* or an input with or without v-model.
NodeChoices ==
  {TextNode(<<>>)}
    \cup {TextNode(<<p>>) : p \in TplPaths}
    \cup {TextNode(<<p, q>>) : p \in TplPaths, q \in TplPaths}
    \cup {InputNode(key) : key \in TplPaths \cup {<<>>}}

Templates == {<<m, n>> : m \in NodeChoices, n \in NodeChoices}

\* The state after step 2 of Vue's constructor (new Observer(this.$data)).
ConvertedVue ==
  observe([val |-> VueData, reactive |-> {},
           subs |-> [f \in Fields |-> <<>>], target |-> Null,
           watchers |-> <<>>, log |-> <<>>, nodes |-> <<>>, trace |-> <<>>,
           thrown |-> FALSE], "D", 1)

\* Vue's constructor before step 4: the data converted and proxied, the
\* template still as written.
InitVue ==
  /\ val = ConvertedVue.val
  /\ reactive = ConvertedVue.reactive
  /\ subs = ConvertedVue.subs
  /\ target = Null
  /\ watchers = <<>>
  /\ log = <<>>
  /\ nodes \in Templates
  /\ trace = <<>>
  /\ last = [op |-> "init", f |-> <<>>, v |-> "", w |-> 0, thrown |-> FALSE,
             from |-> 0,
             pre |-> [val |-> ConvertedVue.val,
                      reactive |-> ConvertedVue.reactive,
                      subs |-> ConvertedVue.subs, target |-> Null,
                      watchers |-> <<>>, log |-> <<>>, nodes |-> nodes]]
  /\ nops = 0

\* Step 4 of Vue's constructor: new Compile(options.el, this).
CompileEl ==
  /\ last.op = "init"
  /\ Commit(Compile(Cur), "compile", <<>>, "", 0)

\* The values written through the instance.
VmDomain(k) == IF k = "a" THEN {"N", "v1"} ELSE Scalars

\* The user types in the input that is node n: its value becomes v and the
\* listener runs. last.w is the node.
InputEvent(n, v) ==
  /\ last.op # "init"
  /\ nops < MaxOps
  /\ nodes[n].bound
  /\ Commit(onInput([Cur EXCEPT !.nodes[n].value = v], n, v),
            "input", <<>>, v, n)

\* vm[k] = v
VmWrite(k, v) ==
  /\ last.op # "init"
  /\ nops < MaxOps
  /\ Commit(PropAssign(Cur, VM, k, v, 0), "vmwrite", <<"D", k>>, v, 0)

\* A read of vm[k].
VmRead(k) ==
  /\ last.op # "init"
  /\ nops < MaxOps
  /\ LET r == Prop(Cur, VM, k)
     IN  Commit(r.s, "vmread", <<"D", k>>, r.v, 0)

NextVue ==
  \/ CompileEl
  \/ \E n \in 1..Len(nodes) : \E v \in Scalars : InputEvent(n, v)
  \/ \E k \in Proxied : \E v \in VmDomain(k) : VmWrite(k, v)
  \/ \E k \in Proxied : VmRead(k)

SpecVue == InitVue /\ [][NextVue]_vars

\* ------------------------------------------------------------ conversion -
\* The plain object graphs over D, A and N: count is a scalar, every other
\* field holds a scalar, undefined or any of the three objects, so that an
\* object can be reached from itself and from two fields.
Graphs ==
  {g \in [Fields -> Scalars \cup Objects \cup {Undefined}] :
     /\ g[<<"D", "count">>] \in Scalars
     /\ g[<<"D", "a">>] \in Objects \cup {Undefined}
     /\ g[<<"A", "b">>] \in Objects \cup {"v1"}
     /\ g[<<"N", "b">>] \in Objects \cup {"v1"}}

\* What `new Observer` is given: an object of the graph, undefined (null), a
\* scalar.
Roots == Objects \cup {Undefined, "v1"}

\* Before any `new Observer`: no field is intercepted.
InitConvert ==
  /\ val \in Graphs
  /\ reactive = {}
  /\ subs = [f \in Fields |-> <<>>]
  /\ target = Null
  /\ watchers = <<>>
  /\ log = <<>>
  /\ nodes = <<>>
  /\ trace = <<>>
  /\ last = [op |-> "init", f |-> <<>>, v |-> "", w |-> 0, thrown |-> FALSE,
             from |-> 0,
             pre |-> [val |-> val, reactive |-> {},
                      subs |-> [f \in Fields |-> <<>>], target |-> Null,
                      watchers |-> <<>>, log |-> <<>>, nodes |-> <<>>]]
  /\ nops = 0

\* new Observer(data)
Convert(data) ==
  /\ nops < MaxOps
  /\ Commit(observe(Cur, data, 1), "convert", <<>>, data, 0)

NextConvert == \E data \in Roots : Convert(data)

SpecConvert == InitConvert /\ [][NextConvert]_vars

\* ------------------------------------------------------------ claims ----
\* The events of the last operation.
OpEvents == SubSeq(trace, last.from + 1, Len(trace))

\* The last operation assigned an intercepted field a value other than the one
\* it held.
EffectiveWrite ==
  /\ last.op = "write"
  /\ last.f \in reactive
  /\ last.v # last.pre.val[last.f]

\* The last operation assigned a field the value it held.
EqualWrite ==
  /\ last.op = "write"
  /\ last.v = last.pre.val[last.f]

Range(q) == {q[i] : i \in 1..Len(q)}

\* How many entries of the list q are watcher w.
Occ(q, w) == Cardinality({i \in 1..Len(q) : q[i] = w})

\* The fields whose dep.subs holds watcher w.
SubscribedTo(w) == {f \in Fields : w \in Range(subs[f])}

Done(w) == watchers[w].st = "done"

\* Watcher w existed, its constructor returned, before the last operation.
DoneBefore(w) ==
  w <= Len(last.pre.watchers) /\ last.pre.watchers[w].st = "done"

\* The values the callback of watcher w received in the last operation.
Received(w) ==
  LET q == SelectSeq(OpEvents, LAMBDA ev : ev.e = "cb" /\ ev.w = w)
  IN  [i \in 1..Len(q) |-> q[i].v]

\* No callback assigned a field in the last operation.
NoCallbackAssigned ==
  \A i \in 1..Len(OpEvents) : OpEvents[i].e = "assign" => OpEvents[i].d = 0

\* The value of field f after the first p events: the value of the last
\* assignment to f, its value at conversion when there was none.
ValAt(f, p) ==
  LET S == {m \in 1..p : trace[m].e = "assign" /\ trace[m].f = f}
  IN  IF S = {} THEN PlainVal[f]
      ELSE trace[CHOOSE m \in S : \A n \in S : n <= m].v

\* The position in trace at which the constructor of watcher w called
\* update().
CtorAt(w) ==
  CHOOSE m \in 1..Len(trace) :
    trace[m].e = "upd" /\ trace[m].w = w /\ trace[m].src = "ctor"

\* update() number j of the notify() recorded at trace[i] was entered.
Started(i, j) ==
  \E m \in 1..Len(trace) : trace[m].e = "upd" /\ trace[m].by = <<i, j>>

\* The watchers whose update() the notify() recorded at trace[i] called, in
\* call order.
Called(i) ==
  LET n == Cardinality({j \in 1..Len(trace[i].l) : Started(i, j)})
  IN  [j \in 1..n |->
         trace[CHOOSE m \in 1..Len(trace) :
                 trace[m].e = "upd" /\ trace[m].by = <<i, j>>].w]

\* update() number j of the notify() recorded at trace[i] raised: an exception
\* was raised after it was entered and before its successor was.
Raised(i, j) ==
  \E m, r \in 1..Len(trace) :
    /\ m < r
    /\ trace[m].e = "upd" /\ trace[m].by = <<i, j>>
    /\ trace[r].e = "raise"
    /\ \A q \in m..r : trace[q].d >= trace[m].d
    /\ \A q \in m..r : ~(trace[q].e = "upd" /\ trace[q].by = <<i, j + 1>>)

\* C1: a write that assigns an intercepted field F a value different from its
\* current one calls update() of exactly the watchers in F's dep.subs, once per
\* entry and in the order of the entries, before the write returns.
C1_WriteUpdatesExactlySubs ==
  EffectiveWrite =>
    /\ trace[last.from + 2].e = "notify"
    /\ Called(last.from + 2) = last.pre.subs[last.f]

\* C2: writing a field the value it already holds calls no update() and no
\* callback and changes nothing: the field values, every dep.subs, Dep.target
\* and the callbacks' logs are as before the write, and the write returns
\* normally.
C2_EqualWriteChangesNothing ==
  EqualWrite =>
    /\ val = last.pre.val
    /\ subs = last.pre.subs
    /\ target = last.pre.target
    /\ log = last.pre.log
    /\ ~last.thrown
    /\ \A i \in 1..Len(OpEvents) : OpEvents[i].e = "assign"

\* C2 witness: an equal-value write to an intercepted field that has
\* subscribers.
C2_Witness ==
  /\ EqualWrite
  /\ last.f \in reactive
  /\ Len(subs[last.f]) > 0

\* C3: whenever no Watcher constructor is running (every state between two
\* top-level operations), Dep.target is null, so a field read then adds no
\* subscriber to any dep.subs.
C3_TargetNullOutsideConstructor ==
  /\ target = Null
  /\ last.op = "read" => subs = last.pre.subs

\* C4: within one notify(), when the update() of one watcher raises, update()
\* is still called on every watcher recorded after it in the list.
C4_NotifyIsolatesFailures ==
  \A i \in 1..Len(trace) :
    trace[i].e = "notify" =>
      \A j \in 1..Len(trace[i].l) :
        Raised(i, j) =>
          \A j2 \in (j + 1)..Len(trace[i].l) : Started(i, j2)

\* C5 as stated: once the constructor of a watcher has returned, the dep.subs
\* that hold the watcher are exactly those of the fields its key path went
\* through during construction, and no later operation adds it to any.
C5_DepsAreThePathFields ==
  \A w \in 1..Len(watchers) :
    Done(w) =>
      /\ SubscribedTo(w) = Range(watchers[w].deps)
      /\ DoneBefore(w) =>
           \A f \in Fields : Occ(subs[f], w) = Occ(last.pre.subs[f], w)

\* The value key[i..] leads to from v, by the field values alone.
RECURSIVE Follow(_, _, _)
Follow(v, key, i) ==
  IF i > Len(key) THEN v
  ELSE IF <<v, key[i]>> \in Fields THEN Follow(val[<<v, key[i]>>], key, i + 1)
  ELSE Undefined

\* The last operation assigned a different value to the leaf field of the key
\* path of watcher w, through which the path resolves.
LeafWrite(w) ==
  /\ EffectiveWrite
  /\ watchers[w].deps # <<>>
  /\ last.f = watchers[w].deps[Len(watchers[w].deps)]
  /\ Len(watchers[w].key) = 2 => val[<<"D", "a">>] = last.f[1]

\* C6: constructing a watcher (with a callback that only takes the value) on a
\* key path that resolves calls the callback exactly once, with the resolved
\* value, and records the watcher exactly once in the dep.subs of every
\* intercepted field of the path; afterwards a write of a different value to
\* the leaf field (during which no callback assigns a field) calls the
\* callback exactly once with the new value, and assigning D.a the object it
\* holds calls no callback.
C6_ConstructThenWriteLeaf ==
  /\ \A w \in 1..Len(watchers) :
       (watchers[w].cb = "log" /\ Done(w)) =>
         /\ last.op = "new" /\ last.w = w =>
              /\ Received(w) = <<Follow("D", watchers[w].key, 1)>>
              /\ \A f \in Range(watchers[w].deps) : Occ(subs[f], w) = 1
         /\ (DoneBefore(w) /\ LeafWrite(w) /\ NoCallbackAssigned) =>
              Received(w) = <<last.v>>
  /\ (EqualWrite /\ last.f = <<"D", "a">>) =>
       \A i \in 1..Len(OpEvents) : OpEvents[i].e # "cb"

\* The values assigned to field f after the first p events that differed from
\* the value f held, in order.
EffectiveSince(f, p) ==
  LET q == SelectSeq(SubSeq(trace, p + 1, Len(trace)),
                     LAMBDA ev : ev.e = "assign" /\ ev.f = f /\ ev.v # ev.old)
  IN  [i \in 1..Len(q) |-> q[i].v]

\* C7: for a watcher on the scalar field count whose callback pushes the value
\* on a log, after any sequence of writes to count (made by the writer, none
\* by a callback, and no update() called from outside) the log is the value count had at construction followed by
\* the written values that differed from the value held, in write order.
C7_LogIsInitialThenEffectiveWrites ==
  (\A i \in 1..Len(trace) : trace[i].e = "assign" => trace[i].d = 0) =>
    \A w \in 1..Len(watchers) :
      (/\ watchers[w].cb = "log" /\ watchers[w].key = <<"count">> /\ Done(w)
       /\ \A i \in 1..Len(trace) :
            (trace[i].e = "upd" /\ trace[i].w = w) => trace[i].src # "ext") =>
        log[w] = <<ValAt(<<"D", "count">>, CtorAt(w))>>
                   \o EffectiveSince(<<"D", "count">>, CtorAt(w))

\* C8: a read of a converted field returns the last value assigned to it (its
\* value at conversion when it was never assigned), and changes no field
\* value.
C8_ReadReturnsLastAssigned ==
  (last.op = "read" /\ last.f \in reactive) =>
    /\ last.v = ValAt(last.f, Len(trace))
    /\ val = last.pre.val

\* C8 witness: a read of a converted field that returns a value assigned after
\* conversion, other than the one it had then.
C8_Witness ==
  /\ last.op = "read"
  /\ last.f \in reactive
  /\ last.v # PlainVal[last.f]
  /\ last.v = ValAt(last.f, Len(trace))

\* The constructor of watcher w failed because its key path did not resolve.
PathFailed(w) ==
  \E m \in 1..Len(trace) :
    /\ trace[m].e = "raise" /\ trace[m].w = w
    /\ trace[m].src = "ctor" /\ trace[m].v = "path"

\* C9: a watcher whose construction failed on an undefined intermediate value
\* never had its callback called and is in no dep.subs (so no later write
\* calls its callback).
C9_FailedWatcherIsUnsubscribed ==
  \A w \in 1..Len(watchers) :
    PathFailed(w) =>
      /\ SubscribedTo(w) = {}
      /\ \A m \in 1..Len(trace) : ~(trace[m].e = "cb" /\ trace[m].w = w)

\* C10 as stated: when the constructor calls the callback, Dep.target is null,
\* so a construction adds the watcher to the dep.subs of its path's fields
\* and changes no other entry of any dep.subs.
C10_TargetNullAtInitialCallback ==
  /\ \A m \in 1..Len(trace) :
       (trace[m].e = "cb" /\ trace[m].src = "ctor") => trace[m].tgt = Null
  /\ last.op = "new" =>
       \A f \in Fields :
         subs[f] = IF f \in Range(watchers[last.w].deps)
                     THEN Append(last.pre.subs[f], last.w)
                     ELSE last.pre.subs[f]

\* The key path key[i..] can be followed from v: no value before its last
\* segment is undefined.
RECURSIVE Resolvable(_, _, _)
Resolvable(v, key, i) ==
  \/ i > Len(key)
  \/ /\ v # Undefined
     /\ Resolvable(IF <<v, key[i]>> \in Fields THEN val[<<v, key[i]>>]
                                               ELSE Undefined, key, i + 1)

\* Every update() of the last operation was of a watcher its constructor had
\* returned, and every callback called takes the value (log) or calls update()
\* of another watcher (upd): the operation ran no code but update() of
\* constructed watchers and such callbacks.
OnlyUpdatesRan ==
  \A i \in 1..Len(OpEvents) :
    /\ OpEvents[i].e = "upd" => DoneBefore(OpEvents[i].w)
    /\ OpEvents[i].e = "cb" => watchers[OpEvents[i].w].cb \in {"log", "upd"}

\* C11: update() of a constructed watcher, whoever calls it (from outside,
\* notify() of a write, the callback of another watcher), resolves the key
\* path again and calls the callback exactly once with the value resolved,
\* and registers nothing: every dep.subs and Dep.target are after the call as
\* before it, and so are the field values (but for the field a write assigns).
C11_UpdateRegistersNothing ==
  /\ (last.op = "update" /\ watchers[last.w].cb = "log"
        /\ Resolvable("D", watchers[last.w].key, 1)) =>
       /\ Received(last.w) = <<Follow("D", watchers[last.w].key, 1)>>
       /\ val = last.pre.val
  /\ (last.op \in {"update", "write"} /\ OnlyUpdatesRan) =>
       /\ subs = last.pre.subs
       /\ target = last.pre.target
       /\ \A f \in Fields : f # last.f => val[f] = last.pre.val[f]

\* q is a prefix of r.
IsPrefix(q, r) == Len(q) <= Len(r) /\ q = SubSeq(r, 1, Len(q))

\* The last operation assigned the intercepted field D.a the plain object N,
\* D.a holding something else.
AssignedNewObject ==
  EffectiveWrite /\ last.f = <<"D", "a">> /\ last.v = "N"

\* C12: assigning an intercepted field (D.a) a new plain object (N) does not
\* convert the object. The assignment calls update() of the watchers recorded
\* on D.a, and each callback receives the value resolved through N; every
\* write to a field of N calls no callback; the fields of N are never
\* intercepted and no watcher is ever recorded for them; the watchers stay
\* recorded on the fields of the replaced object A.
C12_AssignedObjectStaysPlain ==
  /\ <<"N", "b">> \notin reactive
  /\ subs[<<"N", "b">>] = <<>>
  /\ IsPrefix(last.pre.subs[<<"A", "b">>], subs[<<"A", "b">>])
  /\ (last.op = "write" /\ last.f = <<"N", "b">>) =>
       \A i \in 1..Len(OpEvents) : OpEvents[i].e \notin {"notify", "upd", "cb"}
  /\ AssignedNewObject =>
       /\ Called(last.from + 2) = last.pre.subs[<<"D", "a">>]
       /\ \A i \in 1..Len(OpEvents) :
            (OpEvents[i].e = "cb" /\ watchers[OpEvents[i].w].key = <<"a", "b">>)
              => OpEvents[i].v = val[<<"N", "b">>]

\* The fields of object o.
FieldsOf(o) == {<<o, KeysOf(o)[i]>> : i \in 1..Len(KeysOf(o))}

\* The objects that can be reached from the objects of S through the fields.
RECURSIVE Closure(_)
Closure(S) ==
  LET T == S \cup ({val[f] : f \in UNION {FieldsOf(o) : o \in S}} \cap Objects)
  IN  IF T = S THEN S ELSE Closure(T)

\* The last operation was `new Observer` on a graph no field of which was
\* intercepted.
ConvertedPlain == last.op = "convert" /\ last.pre.reactive = {}

\* C13: `new Observer(data)` returns without raising for every plain object
\* graph, also one in which an object is reached from itself or from two
\* fields, and afterwards every field of every object reached from data is
\* intercepted, with an empty dep.subs, and holds the value it held; for
\* null or a value that is not an object it changes nothing.
C13_ConvertTerminates ==
  ConvertedPlain =>
    /\ ~last.thrown
    /\ val = last.pre.val
    /\ subs = last.pre.subs
    /\ reactive = UNION {FieldsOf(o) :
                           o \in (IF IsObject(last.v) THEN Closure({last.v})
                                                      ELSE {})}

\* The program state before the last operation, and after it.
PreState ==
  [val |-> last.pre.val, reactive |-> last.pre.reactive,
   subs |-> last.pre.subs, target |-> last.pre.target,
   watchers |-> last.pre.watchers, log |-> last.pre.log,
   nodes |-> last.pre.nodes, trace |-> SubSeq(trace, 1, last.from),
   thrown |-> FALSE]

PostState == [Cur EXCEPT !.thrown = last.thrown]

\* The fields of the data g that the key path key[i..] goes through from
\* object o.
RECURSIVE PathFields(_, _, _, _)
PathFields(g, o, key, i) ==
  IF i > Len(key) \/ <<o, key[i]>> \notin Fields THEN {}
  ELSE {<<o, key[i]>>} \cup PathFields(g, g[<<o, key[i]>>], key, i + 1)

RECURSIVE FollowIn(_, _, _, _)
FollowIn(g, v, key, i) ==
  IF i > Len(key) THEN v
  ELSE IF <<v, key[i]>> \in Fields THEN FollowIn(g, g[<<v, key[i]>>], key, i + 1)
  ELSE Undefined

\* The field the key path key addresses in the data g.
Addressed(g, key) ==
  <<FollowIn(g, "D", SubSeq(key, 1, Len(key) - 1), 1), key[Len(key)]>>

\* The last operation was an input event on a v-model input whose key path
\* addresses a field.
InputOnField ==
  /\ last.op = "input"
  /\ Addressed(last.pre.val, last.pre.nodes[last.w].key) \in Fields

\* C15: an input event with value v on an input bound by v-model to key path
\* p sets the field p addresses to v; when v differs from the value held,
\* the callback of every watcher recorded on the field is called with v (once
\* per entry); when v is the value held, no callback is called; the listener
\* returns, and no field is assigned but this one.
C15_InputEventWritesField ==
  InputOnField =>
    LET f == Addressed(last.pre.val, last.pre.nodes[last.w].key)
    IN  /\ val[f] = last.v
        /\ ~last.thrown
        /\ \A i \in 1..Len(OpEvents) :
             OpEvents[i].e = "assign" => (i = 1 /\ OpEvents[i].f = f)
        /\ last.v # last.pre.val[f] =>
             \A w \in Range(last.pre.subs[f]) :
               Received(w) = [j \in 1..Occ(last.pre.subs[f], w) |-> last.v]
        /\ last.v = last.pre.val[f] =>
             \A i \in 1..Len(OpEvents) : OpEvents[i].e # "cb"

\* The interpolations of the template: <<n, i>> is token i of text node n.
Occurrences ==
  UNION {{<<n, i>> : i \in 1..Len(nodes[n].text)} : n \in 1..Len(nodes)}

\* The field the last operation wrote (a write through the instance, an input
\* event), <<>> when it wrote none.
Written ==
  CASE last.op = "vmwrite" -> last.f
    [] InputOnField -> Addressed(last.pre.val, last.pre.nodes[last.w].key)
    [] OTHER -> <<>>

\* C16: compilation constructs one Watcher for every interpolation of the
\* template, also for several in one text node, and after a write to a field
\* every interpolation whose path ends in the field displays the value
\* written.
C16_OneWatcherPerInterpolation ==
  last.op # "init" =>
    /\ Cardinality({w \in 1..Len(watchers) : watchers[w].cb = "text"})
         = Cardinality(Occurrences)
    /\ (Written # <<>> /\ val[Written] = last.v) =>
         \A o \in Occurrences :
           LET tok == nodes[o[1]].text[o[2]]
           IN  Addressed(val, tok.p) = Written =>
                 (~tok.raw /\ tok.v = toString(last.v))

\* Every watcher was constructed successfully, with a callback that only takes
\* the value (it reads and writes no field and constructs no watcher).
AllPlainWatchers ==
  \A w \in 1..Len(watchers) : Done(w) /\ watchers[w].cb = "log"

\* How many times update() of watcher w was entered in the last operation.
Updates(w) ==
  Cardinality({i \in 1..Len(OpEvents) :
                 OpEvents[i].e = "upd" /\ OpEvents[i].w = w})

C18_WriteTerminates ==
  \A i \in 1..Len(trace) : trace[i].e = "raise" => trace[i].v # "stack"

\* C19: dep.subs are append-only: over reads, writes, constructions and
\* update() calls every dep.subs keeps what it held as a prefix (nothing is
\* removed or reordered), so update() of a watcher once recorded on a field is
\* called in every later effective write to the field.
C19_SubsAppendOnly ==
  /\ \A f \in Fields : IsPrefix(last.pre.subs[f], subs[f])
  /\ EffectiveWrite =>
       \A w \in Range(last.pre.subs[last.f]) : Updates(w) >= 1

====
